---- MODULE Spec2Model ----
(***************************************************************************)
(* Model of bot.py: the transcript extractor (clean_data), the archiver    *)
(* (save_conversation), the prompt builder (generate_prompt), the          *)
(* completion adapter (get_ai_response) and the ConversationHandler built  *)
(* in main().                                                              *)
(*                                                                         *)
(* Strings are sequences of one-character strings, so that str.strip(),    *)
(* "".join(...) and the f-string rendering are computed, not assumed.      *)
(* JSON values are tagged records: every value of one kind carries the     *)
(* same fields, the unused ones empty.                                     *)
(***************************************************************************)
EXTENDS Integers, Sequences, FiniteSets, TLC

\* ------------------------------------------------------------------------
\* Bounds of the model
\* ------------------------------------------------------------------------
MaxLen == 3
MaxCount == 3
MaxTurns == 2
MaxArchive == 2

\* ------------------------------------------------------------------------
\* Program constants
\* ------------------------------------------------------------------------
DEFAULT_MESSAGES_COUNT == 750

UPLOAD == 0
GET_NAME == 1
CHAT_MODE == 2
END == -1

\* ------------------------------------------------------------------------
\* Strings
\* ------------------------------------------------------------------------
Whitespace == {" ", "\n"}

RECURSIVE lstrip(_)
lstrip(s) ==
  IF s = <<>> THEN s
  ELSE IF Head(s) \in Whitespace THEN lstrip(Tail(s)) ELSE s

RECURSIVE rstrip(_)
rstrip(s) ==
  IF s = <<>> THEN s
  ELSE IF s[Len(s)] \in Whitespace THEN rstrip(SubSeq(s, 1, Len(s) - 1)) ELSE s

strip(s) == rstrip(lstrip(s))

RECURSIVE reversed(_)
reversed(s) == IF s = <<>> THEN <<>> ELSE Append(reversed(Tail(s)), Head(s))

\* ------------------------------------------------------------------------
\* JSON values of an export
\* ------------------------------------------------------------------------
\* a value that may be a string, null (None) or absent from its record
JStr(s) == [tag |-> "str", s |-> s]
JNull == [tag |-> "null", s |-> <<>>]
JAbsent == [tag |-> "absent", s |-> <<>>]

\* an element of a "text" list: a record with a string "text", a record
\* without "text", a value that is not a record, a record whose "text" is
\* not a string
FragText(s) == [tag |-> "text", s |-> s]
FragNoText == [tag |-> "notext", s |-> <<>>]
FragNonDict == [tag |-> "nondict", s |-> <<>>]
FragBadText == [tag |-> "badtext", s |-> <<>>]

\* the "text" member of a message: a string, a list, another value, absent
TextStr(s) == [tag |-> "str", s |-> s, l |-> <<>>]
TextList(l) == [tag |-> "list", s |-> <<>>, l |-> l]
TextOther == [tag |-> "other", s |-> <<>>, l |-> <<>>]
TextAbsent == [tag |-> "absent", s |-> <<>>, l |-> <<>>]

\* an element of "messages": a record (dict) or anything else
Msg(f, t, d) == [isdict |-> TRUE, from |-> f, text |-> t, date |-> d]
NonDict == [isdict |-> FALSE, from |-> JAbsent, text |-> TextAbsent, date |-> JAbsent]

\* ------------------------------------------------------------------------
\* clean_data
\* ------------------------------------------------------------------------
\* "".join(entity["text"] for entity in msg["text"]
\*         if isinstance(entity, dict) and "text" in entity)
\* ok = FALSE is the TypeError join raises on an item that is not a string
\* mutant: the fragments joined last to first
RECURSIVE join_entities_backwards(_)
join_entities_backwards(l) ==
  IF l = <<>> THEN [ok |-> TRUE, s |-> <<>>]
  ELSE LET e == Head(l)
           rest == join_entities_backwards(Tail(l))
       IN IF e.tag \in {"nondict", "notext"} THEN rest
          ELSE IF e.tag = "badtext" THEN [ok |-> FALSE, s |-> <<>>]
          ELSE IF rest.ok THEN [ok |-> TRUE, s |-> rest.s \o e.s]
          ELSE rest

RECURSIVE join_entities(_)
join_entities(l) ==
  IF l = <<>> THEN [ok |-> TRUE, s |-> <<>>]
  ELSE LET e == Head(l)
           rest == join_entities(Tail(l))
       IN IF e.tag \in {"nondict", "notext"} THEN rest
          ELSE IF e.tag = "badtext" THEN [ok |-> FALSE, s |-> <<>>]
          ELSE IF rest.ok THEN [ok |-> TRUE, s |-> e.s \o rest.s]
          ELSE rest

extract_text(msg) ==
  IF msg.text.tag = "str" THEN [ok |-> TRUE, s |-> msg.text.s]
  ELSE IF msg.text.tag = "list" THEN join_entities(msg.text.l)
  ELSE [ok |-> TRUE, s |-> <<>>]

\* mutant: the emptiness test without the trimming (if not text)
is_blank_untrimmed(text) == text = <<>>

\* not text.strip()
is_blank(text) == strip(text) = <<>>

\* msg.get("date", ""): the member when present (a null stays None)
get_date(msg) == IF msg.date.tag = "absent" THEN JStr(<<>>) ELSE msg.date

\* mutant: the trimmed text stored
cleaned_message_trimmed(msg, text) ==
  [from |-> msg.from.s, text |-> strip(text), date |-> get_date(msg)]

cleaned_message(msg, text) ==
  [from |-> msg.from.s, text |-> text, date |-> get_date(msg)]

\* mutant: the cap tested with > (one message too many)
RECURSIVE clean_loop_off_by_one(_, _, _, _, _)
clean_loop_off_by_one(data, i, interlocutor_name, max_messages, acc) ==
  IF i = 0 THEN [ok |-> TRUE, out |-> acc]
  ELSE IF Len(acc) > max_messages THEN [ok |-> TRUE, out |-> acc]
  ELSE LET msg == data[i] IN
    IF ~msg.isdict
      THEN clean_loop_off_by_one(data, i - 1, interlocutor_name, max_messages, acc)
    ELSE IF ~(msg.from.tag = "str" /\ msg.from.s = interlocutor_name)
      THEN clean_loop_off_by_one(data, i - 1, interlocutor_name, max_messages, acc)
    ELSE LET t == extract_text(msg) IN
      IF ~t.ok THEN [ok |-> FALSE, out |-> <<>>]
      ELSE IF is_blank(t.s)
        THEN clean_loop_off_by_one(data, i - 1, interlocutor_name, max_messages, acc)
      ELSE clean_loop_off_by_one(data, i - 1, interlocutor_name, max_messages,
                                 Append(acc, cleaned_message(msg, t.s)))

\* the loop over reversed(data): i is the position of msg, acc is
\* cleaned_messages; ok = FALSE when the loop raised
RECURSIVE clean_loop(_, _, _, _, _)
clean_loop(data, i, interlocutor_name, max_messages, acc) ==
  IF i = 0 THEN [ok |-> TRUE, out |-> acc]
  ELSE IF Len(acc) >= max_messages THEN [ok |-> TRUE, out |-> acc]
  ELSE LET msg == data[i] IN
    IF ~msg.isdict
      THEN clean_loop(data, i - 1, interlocutor_name, max_messages, acc)
    ELSE IF ~(msg.from.tag = "str" /\ msg.from.s = interlocutor_name)
      THEN clean_loop(data, i - 1, interlocutor_name, max_messages, acc)
    ELSE LET t == extract_text(msg) IN
      IF ~t.ok THEN [ok |-> FALSE, out |-> <<>>]
      ELSE IF is_blank(t.s)
        THEN clean_loop(data, i - 1, interlocutor_name, max_messages, acc)
      ELSE clean_loop(data, i - 1, interlocutor_name, max_messages,
                      Append(acc, cleaned_message(msg, t.s)))

\* mutant: the scan runs oldest to newest (for msg in data), no reversal
clean_data_oldest_first(data, interlocutor_name, max_messages) ==
  LET r == clean_loop(reversed(data), Len(data), interlocutor_name,
                      max_messages, <<>>)
  IN IF r.ok THEN [ok |-> TRUE, out |-> r.out]
     ELSE [ok |-> FALSE, out |-> <<>>]

\* mutant: the accumulator returned as scanned, newest first
clean_data_not_reversed(data, interlocutor_name, max_messages) ==
  LET r == clean_loop(data, Len(data), interlocutor_name, max_messages, <<>>)
  IN IF r.ok THEN [ok |-> TRUE, out |-> r.out]
     ELSE [ok |-> FALSE, out |-> <<>>]

clean_data(data, interlocutor_name, max_messages) ==
  LET r == clean_loop(data, Len(data), interlocutor_name, max_messages, <<>>)
  IN IF r.ok THEN [ok |-> TRUE, out |-> reversed(r.out)]
     ELSE [ok |-> FALSE, out |-> <<>>]

\* ------------------------------------------------------------------------
\* State
\* ------------------------------------------------------------------------
VARIABLES
  cd_data,    \* clean_data: the data argument
  cd_name,    \* clean_data: the interlocutor_name argument
  cd_max,     \* clean_data: the max_messages argument
  cd_pc,      \* "call" before the call, "return" after it
  cd_res,     \* clean_data: what the call returned (or that it raised)
  conv,       \* ConversationHandler: each user's state (END: no conversation)
  user_data,  \* context.user_data of each user: json_data, prompt, history
  temp,       \* whether Chats/temp_{user_id}.json exists
  archive,    \* the files save_conversation wrote under Chats/, in order
  last        \* the update handled last: its handler, reply and effects

clean_vars == <<cd_data, cd_name, cd_max, cd_pc, cd_res>>
session_vars == <<conv, user_data, temp, archive, last>>
vars == <<cd_data, cd_name, cd_max, cd_pc, cd_res,
          conv, user_data, temp, archive, last>>

\* ------------------------------------------------------------------------
\* Inputs of the extractor
\* ------------------------------------------------------------------------
Alice == <<"A", "l">>
alice == <<"a", "l">>
Bob == <<"B", "o">>
Carol == <<"C", "a">>

Names == {Alice, alice, Carol}

RawEntries ==
  { Msg(JStr(Alice), TextStr(<<"h", "i">>), JStr(<<"1">>)),
    Msg(JStr(Alice), TextStr(<<" ", "y", "\n">>), JAbsent),
    Msg(JStr(Alice), TextStr(<<"z">>), JStr(<<"2">>)),
    Msg(JStr(Alice), TextStr(<<" ", "\n">>), JStr(<<"3">>)),
    Msg(JStr(Alice), TextOther, JStr(<<"4">>)),
    Msg(JStr(Alice), TextAbsent, JAbsent),
    Msg(JStr(Alice),
        TextList(<<FragText(<<"f", "o", "o">>), FragNoText,
                   FragText(<<"b", "a", "r">>)>>), JNull),
    Msg(JStr(Alice), TextList(<<FragNonDict, FragText(<<" ">>)>>), JStr(<<"5">>)),
    Msg(JStr(Alice), TextList(<<FragText(<<"x">>), FragBadText>>), JStr(<<"6">>)),
    Msg(JStr(alice), TextStr(<<"l", "o">>), JStr(<<"7">>)),
    Msg(JStr(Bob), TextStr(<<"y", "o">>), JStr(<<"8">>)),
    Msg(JAbsent, TextStr(<<"h", "i">>), JStr(<<"9">>)),
    Msg(JNull, TextList(<<>>), JAbsent),
    NonDict }

SeqsUpTo(S, n) == UNION {[1..k -> S] : k \in 0..n}

NoResult == [ok |-> TRUE, out |-> <<>>]

\* ------------------------------------------------------------------------
\* Users, updates and the environment's answers
\* ------------------------------------------------------------------------
Users == {"u1", "u2"}

\* an uploaded file as open and json.load see it:
\*   "not_utf8"          reading the file raises UnicodeDecodeError
\*   "invalid_json"      json.load raises JSONDecodeError
\*   "scalar"            a number, null, true: `"messages" in data` raises
\*   "array"             a list: "messages" is not an element of it
\*   "no_messages"       a dict without "messages"
\*   "messages_not_list" a dict whose "messages" is not a list
\*   "valid"             a dict whose "messages" is the list `messages`
Doc(ext_json, kind, messages) ==
  [ext_json |-> ext_json, kind |-> kind, messages |-> messages]

NoDoc == Doc(FALSE, "none", <<>>)

ExportA ==
  << Msg(JStr(Alice), TextStr(<<"h", "i">>), JStr(<<"1">>)),
     Msg(JStr(Bob), TextStr(<<"y", "o">>), JStr(<<"2">>)),
     Msg(JStr(Alice), TextStr(<<" ", " ">>), JStr(<<"3">>)),
     Msg(JStr(Alice),
         TextList(<<FragText(<<"f", "o", "o">>), FragNoText,
                    FragText(<<"b", "a", "r">>)>>), JAbsent) >>

ExportB ==
  << Msg(JStr(alice), TextStr(<<"l", "o">>), JStr(<<"1">>)),
     Msg(JStr(Alice), TextStr(<<" ", "y", "\n">>), JNull),
     NonDict >>

ExportBad ==
  << Msg(JStr(Alice), TextList(<<FragText(<<"x">>), FragBadText>>), JStr(<<"1">>)),
     Msg(JStr(Bob), TextStr(<<"y", "o">>), JNull) >>

Docs ==
  { Doc(TRUE, "valid", ExportA),
    Doc(TRUE, "valid", ExportB),
    Doc(TRUE, "valid", ExportBad),
    Doc(TRUE, "not_utf8", <<>>),
    Doc(TRUE, "invalid_json", <<>>),
    Doc(TRUE, "scalar", <<>>),
    Doc(TRUE, "array", <<>>),
    Doc(TRUE, "no_messages", <<>>),
    Doc(TRUE, "messages_not_list", <<>>),
    Doc(FALSE, "valid", ExportA) }

TextInputs == {Alice, Carol}

Commands == {"start", "cancel", "exit"}

Command(c) == [type |-> "command", cmd |-> c, doc |-> NoDoc, text |-> <<>>]
Document(d) == [type |-> "document", cmd |-> "", doc |-> d, text |-> <<>>]
Text(t) == [type |-> "text", cmd |-> "", doc |-> NoDoc, text |-> t]
NoUpdate == [type |-> "none", cmd |-> "", doc |-> NoDoc, text |-> <<>>]

\* what the file transport and the disk do during one handler:
\*   "get_file"  context.bot.get_file raises
\*   "download"  file.download_to_drive raises; `partial`: a file was left
\*   "write"     open or json.dump in save_conversation raises
\*   "none"      nothing fails
Env(fault, partial) == [fault |-> fault, partial |-> partial]
NoFault == Env("none", FALSE)
JsonEnvs == {NoFault, Env("get_file", FALSE), Env("download", FALSE), Env("download", TRUE)}
NameEnvs == {NoFault, Env("write", FALSE)}

\* what openai.ChatCompletion.create does: returns a message with this
\* content, raises, or returns a response without choices
Completion(kind, content) == [kind |-> kind, content |-> content]
NoCompletion == Completion("none", <<>>)
Completions ==
  { Completion("ok", <<" ", "o", "k", "\n">>),
    Completion("raises", <<>>),
    Completion("malformed", <<>>) }

\* ------------------------------------------------------------------------
\* context.user_data
\* ------------------------------------------------------------------------
NoJson == [present |-> FALSE, messages |-> <<>>]
NoPrompt == [present |-> FALSE, s |-> <<>>]
NoHistory == [present |-> FALSE, turns |-> <<>>]
EmptyUserData == [json_data |-> NoJson, prompt |-> NoPrompt, history |-> NoHistory]

Turn(role, content) == [role |-> role, content |-> content]

\* ------------------------------------------------------------------------
\* Replies (update.message.reply_text)
\* ------------------------------------------------------------------------
\* The messaging transport is outside the model: reply_text delivers.
Reply(kind, text, n) == [kind |-> kind, text |-> text, n |-> n]
NoReply == Reply("none", <<>>, 0)

NoRequest == [sent |-> FALSE, messages |-> <<>>]

\* ------------------------------------------------------------------------
\* generate_prompt
\* ------------------------------------------------------------------------
\* str() of a date inside the f-string: None is rendered "None"
date_str(d) == IF d.tag = "null" THEN <<"N", "o", "n", "e">> ELSE d.s

\* f"{msg['from']} ({msg['date']}): {msg['text']}"
render_message(msg) ==
  msg.from \o <<" ", "(">> \o date_str(msg.date) \o <<")", ":", " ">> \o msg.text

\* "\n".join(...)
RECURSIVE join_lines(_)
join_lines(cleaned_data) ==
  IF cleaned_data = <<>> THEN <<>>
  ELSE IF Len(cleaned_data) = 1 THEN render_message(cleaned_data[1])
  ELSE render_message(Head(cleaned_data)) \o <<"\n">> \o join_lines(Tail(cleaned_data))

\* the fixed parts of the template, each one element
PromptHead == <<"<imitate the style of the person named>">>
PromptExamples == <<"\n", "<here are examples of their messages>", "\n", "\n">>
PromptTail == <<"\n", "\n", "<answer as this person would, text only>">>

\* mutant: the examples rendered newest first
generate_prompt_newest_first(interlocutor_name, cleaned_data) ==
  PromptHead \o interlocutor_name \o PromptExamples
    \o join_lines(reversed(cleaned_data)) \o PromptTail

generate_prompt(interlocutor_name, cleaned_data) ==
  PromptHead \o interlocutor_name \o PromptExamples
    \o join_lines(cleaned_data) \o PromptTail

\* ------------------------------------------------------------------------
\* get_ai_response
\* ------------------------------------------------------------------------
AI_FALLBACK == <<"<generation error, try later>">>

\* mutant: the persona instruction left out of the request
completion_request_without_prompt(prompt, user_input) ==
  [sent |-> TRUE, messages |-> <<Turn("user", user_input)>>]

\* the messages sent to the model: the system prompt and this user turn
completion_request(prompt, user_input) ==
  [sent |-> TRUE,
   messages |-> <<Turn("system", prompt), Turn("user", user_input)>>]

\* mutant: the text of the exception returned as the answer
get_ai_response_leaks_error(prompt, user_input, completion) ==
  IF completion.kind = "ok" THEN strip(completion.content)
  ELSE <<"<", completion.kind, ">">>

get_ai_response(prompt, user_input, completion) ==
  IF completion.kind = "ok" THEN strip(completion.content) ELSE AI_FALLBACK

\* ------------------------------------------------------------------------
\* save_conversation
\* ------------------------------------------------------------------------
\* the file Chats/{user_id}_{uuid4}.json and what json.dump wrote into it
ArchiveFile(user_id, data) == [owner |-> user_id, data |-> data]

\* mutant: a failed write is swallowed and reported as done
save_conversation_swallows_failure(user_id, data, env) ==
  IF env.fault = "write" THEN [ok |-> TRUE, files |-> <<>>]
  ELSE [ok |-> TRUE, files |-> <<ArchiveFile(user_id, data)>>]

\* the files added to Chats/: one, or none when the write raises
save_conversation(user_id, data, env) ==
  IF env.fault = "write" THEN [ok |-> FALSE, files |-> <<>>]
  ELSE [ok |-> TRUE, files |-> <<ArchiveFile(user_id, data)>>]

\* ------------------------------------------------------------------------
\* Handlers: what one call returns and leaves behind
\* ------------------------------------------------------------------------
Outcome(state, ud, reply) ==
  [state |-> state, user_data |-> ud, reply |-> reply, temp |-> FALSE,
   downloaded |-> FALSE, files |-> <<>>, request |-> NoRequest,
   completion |-> NoCompletion, raised |-> FALSE]

start(ud) == Outcome(UPLOAD, ud, Reply("instructions", <<>>, 0))

\* mutant: "messages" only looked up, its type not tested
structure_check_any_messages(doc) ==
  IF doc.kind = "scalar" THEN "raise"
  ELSE IF doc.kind \in {"array", "no_messages"} THEN "reject"
  ELSE "accept"

\* if "messages" not in data or not isinstance(data["messages"], list)
structure_check(doc) ==
  IF doc.kind = "scalar" THEN "raise"
  ELSE IF doc.kind \in {"array", "no_messages", "messages_not_list"} THEN "reject"
  ELSE "accept"

\* mutant: the temporary file is left where it is
finally_remove_nothing(json_path_bound, exists) == exists

\* finally: if 'json_path' in locals() and json_path.exists(): os.remove
\* gives whether the temporary file exists afterwards
finally_remove(json_path_bound, exists) ==
  IF json_path_bound /\ exists THEN FALSE ELSE exists

\* mutant: a document without a messages list is answered with the format
\* error but the name is awaited all the same
handle_json_reject_awaits_name(ud, exists, doc, env) ==
  IF env.fault = "get_file" THEN
    [Outcome(END, ud, Reply("file_processing_error", <<>>, 0))
       EXCEPT !.temp = finally_remove(FALSE, exists)]
  ELSE IF env.fault = "download" THEN
    [Outcome(END, ud, Reply("file_processing_error", <<>>, 0))
       EXCEPT !.temp = finally_remove(TRUE, exists \/ env.partial),
              !.downloaded = env.partial]
  ELSE IF doc.kind = "invalid_json" THEN
    [Outcome(END, ud, Reply("json_read_error", <<>>, 0))
       EXCEPT !.temp = finally_remove(TRUE, TRUE), !.downloaded = TRUE]
  ELSE IF doc.kind = "not_utf8" \/ structure_check(doc) = "raise" THEN
    [Outcome(END, ud, Reply("file_processing_error", <<>>, 0))
       EXCEPT !.temp = finally_remove(TRUE, TRUE), !.downloaded = TRUE]
  ELSE IF structure_check(doc) = "reject" THEN
    [Outcome(GET_NAME, ud, Reply("format_error", <<>>, 0))
       EXCEPT !.temp = finally_remove(TRUE, TRUE), !.downloaded = TRUE]
  ELSE
    [Outcome(GET_NAME,
             [ud EXCEPT !.json_data = [present |-> TRUE, messages |-> doc.messages]],
             Reply("file_received", <<>>, 0))
       EXCEPT !.temp = finally_remove(TRUE, TRUE), !.downloaded = TRUE]

handle_json(ud, exists, doc, env) ==
  IF env.fault = "get_file" THEN
    [Outcome(END, ud, Reply("file_processing_error", <<>>, 0))
       EXCEPT !.temp = finally_remove(FALSE, exists)]
  ELSE IF env.fault = "download" THEN
    [Outcome(END, ud, Reply("file_processing_error", <<>>, 0))
       EXCEPT !.temp = finally_remove(TRUE, exists \/ env.partial),
              !.downloaded = env.partial]
  ELSE IF doc.kind = "invalid_json" THEN
    [Outcome(END, ud, Reply("json_read_error", <<>>, 0))
       EXCEPT !.temp = finally_remove(TRUE, TRUE), !.downloaded = TRUE]
  ELSE IF doc.kind = "not_utf8" \/ structure_check(doc) = "raise" THEN
    [Outcome(END, ud, Reply("file_processing_error", <<>>, 0))
       EXCEPT !.temp = finally_remove(TRUE, TRUE), !.downloaded = TRUE]
  ELSE IF structure_check(doc) = "reject" THEN
    [Outcome(END, ud, Reply("format_error", <<>>, 0))
       EXCEPT !.temp = finally_remove(TRUE, TRUE), !.downloaded = TRUE]
  ELSE
    [Outcome(GET_NAME,
             [ud EXCEPT !.json_data = [present |-> TRUE, messages |-> doc.messages]],
             Reply("file_received", <<>>, 0))
       EXCEPT !.temp = finally_remove(TRUE, TRUE), !.downloaded = TRUE]

\* mutant: an empty result ends the conversation
handle_interlocutor_name_no_retry(ud, user_id, interlocutor_name, env) ==
  IF ~ud.json_data.present THEN
    Outcome(END, ud, Reply("data_not_found", <<>>, 0))
  ELSE LET cleaned == clean_data(ud.json_data.messages, interlocutor_name,
                                 DEFAULT_MESSAGES_COUNT)
           saved == save_conversation(user_id, cleaned.out, env)
       IN IF ~cleaned.ok THEN
            Outcome(END, ud, Reply("processing_error", <<>>, 0))
          ELSE IF cleaned.out = <<>> THEN
            Outcome(END, ud, Reply("no_messages", interlocutor_name, 0))
          ELSE IF ~saved.ok THEN
            [Outcome(END, ud, Reply("processing_error", <<>>, 0))
               EXCEPT !.files = saved.files]
          ELSE
            [Outcome(CHAT_MODE,
                     [ud EXCEPT
                        !.prompt = [present |-> TRUE,
                                    s |-> generate_prompt(interlocutor_name, cleaned.out)],
                        !.history = [present |-> TRUE, turns |-> <<>>]],
                     Reply("analysis_done", interlocutor_name, Len(cleaned.out)))
               EXCEPT !.files = saved.files]

handle_interlocutor_name(ud, user_id, interlocutor_name, env) ==
  IF ~ud.json_data.present THEN
    Outcome(END, ud, Reply("data_not_found", <<>>, 0))
  ELSE LET cleaned == clean_data(ud.json_data.messages, interlocutor_name,
                                 DEFAULT_MESSAGES_COUNT)
           saved == save_conversation(user_id, cleaned.out, env)
       IN IF ~cleaned.ok THEN
            Outcome(END, ud, Reply("processing_error", <<>>, 0))
          ELSE IF cleaned.out = <<>> THEN
            Outcome(GET_NAME, ud, Reply("no_messages", interlocutor_name, 0))
          ELSE IF ~saved.ok THEN
            [Outcome(END, ud, Reply("processing_error", <<>>, 0))
               EXCEPT !.files = saved.files]
          ELSE
            [Outcome(CHAT_MODE,
                     [ud EXCEPT
                        !.prompt = [present |-> TRUE,
                                    s |-> generate_prompt(interlocutor_name, cleaned.out)],
                        !.history = [present |-> TRUE, turns |-> <<>>]],
                     Reply("analysis_done", interlocutor_name, Len(cleaned.out)))
               EXCEPT !.files = saved.files]

\* mutant: the response appended before the user's message
chat_mode_assistant_first(ud, user_input, completion) ==
  IF ~ud.history.present THEN
    [Outcome(CHAT_MODE, ud, NoReply) EXCEPT !.raised = TRUE]
  ELSE IF ~ud.prompt.present THEN
    [Outcome(CHAT_MODE, ud, NoReply) EXCEPT !.raised = TRUE]
  ELSE LET response == get_ai_response(ud.prompt.s, user_input, completion)
       IN [Outcome(CHAT_MODE,
                   [ud EXCEPT !.history.turns =
                                @ \o <<Turn("assistant", response),
                                       Turn("user", user_input)>>],
                   Reply("response", response, 0))
             EXCEPT !.request = completion_request(ud.prompt.s, user_input),
                    !.completion = completion]

\* a KeyError on user_data['history'] or user_data['prompt'] leaves the
\* handler (raised): the conversation keeps its state, nothing is replied
chat_mode(ud, user_input, completion) ==
  IF ~ud.history.present THEN
    [Outcome(CHAT_MODE, ud, NoReply) EXCEPT !.raised = TRUE]
  ELSE LET asked ==
             [ud EXCEPT !.history.turns = Append(@, Turn("user", user_input))]
       IN IF ~ud.prompt.present THEN
            [Outcome(CHAT_MODE, asked, NoReply) EXCEPT !.raised = TRUE]
          ELSE LET response == get_ai_response(ud.prompt.s, user_input, completion)
               IN [Outcome(CHAT_MODE,
                           [asked EXCEPT !.history.turns =
                                           Append(@, Turn("assistant", response))],
                           Reply("response", response, 0))
                     EXCEPT !.request = completion_request(ud.prompt.s, user_input),
                            !.completion = completion]

exit_chat(ud) == Outcome(END, ud, Reply("exit_notice", <<>>, 0))

cancel(ud) == Outcome(END, ud, Reply("cancelled", <<>>, 0))

\* ------------------------------------------------------------------------
\* main: the ConversationHandler's routing of one update
\* ------------------------------------------------------------------------
IsCommand(upd, c) == upd.type = "command" /\ upd.cmd = c
IsJsonDocument(upd) == upd.type = "document" /\ upd.doc.ext_json
IsText(upd) == upd.type = "text"

\* mutant: the fallbacks list left out, /cancel only where a state lists it
handler_for_without_fallbacks(state, upd) ==
  IF state = END THEN
    IF IsCommand(upd, "start") THEN "start" ELSE "none"
  ELSE IF state = UPLOAD THEN
    IF IsJsonDocument(upd) THEN "handle_json"
    ELSE IF IsCommand(upd, "cancel") THEN "cancel" ELSE "none"
  ELSE IF state = GET_NAME THEN
    IF IsText(upd) THEN "handle_interlocutor_name"
    ELSE IF IsCommand(upd, "cancel") THEN "cancel" ELSE "none"
  ELSE
    IF IsText(upd) THEN "chat_mode"
    ELSE IF IsCommand(upd, "exit") THEN "exit_chat" ELSE "none"

\* mutant: allow_reentry, /start taken in every state
handler_for_with_reentry(state, upd) ==
  IF IsCommand(upd, "start") THEN "start"
  ELSE IF state = END THEN "none"
  ELSE IF state = UPLOAD THEN
    IF IsJsonDocument(upd) THEN "handle_json"
    ELSE IF IsCommand(upd, "cancel") THEN "cancel" ELSE "none"
  ELSE IF state = GET_NAME THEN
    IF IsText(upd) THEN "handle_interlocutor_name"
    ELSE IF IsCommand(upd, "cancel") THEN "cancel" ELSE "none"
  ELSE
    IF IsText(upd) THEN "chat_mode"
    ELSE IF IsCommand(upd, "exit") THEN "exit_chat"
    ELSE IF IsCommand(upd, "cancel") THEN "cancel" ELSE "none"

handler_for(state, upd) ==
  IF state = END THEN
    IF IsCommand(upd, "start") THEN "start" ELSE "none"
  ELSE IF state = UPLOAD THEN
    IF IsJsonDocument(upd) THEN "handle_json"
    ELSE IF IsCommand(upd, "cancel") THEN "cancel" ELSE "none"
  ELSE IF state = GET_NAME THEN
    IF IsText(upd) THEN "handle_interlocutor_name"
    ELSE IF IsCommand(upd, "cancel") THEN "cancel" ELSE "none"
  ELSE
    IF IsText(upd) THEN "chat_mode"
    ELSE IF IsCommand(upd, "exit") THEN "exit_chat"
    ELSE IF IsCommand(upd, "cancel") THEN "cancel" ELSE "none"

Updates ==
  {Command(c) : c \in Commands} \cup {Document(d) : d \in Docs}
    \cup {Text(t) : t \in TextInputs}

\* ------------------------------------------------------------------------
\* The session machine: one update handled per step
\* ------------------------------------------------------------------------
\* The Application is built without concurrent_updates and the handlers are
\* registered blocking, so an update is handled to the end before the next
\* one is looked at: a step is one whole handler call.
\* `state` is the conversation state the update was routed in
Handled(u, upd, handler, env, out) ==
  [user |-> u, update |-> upd, state |-> conv[u], handler |-> handler,
   env |-> env, reply |-> out.reply, request |-> out.request,
   completion |-> out.completion, downloaded |-> out.downloaded,
   raised |-> out.raised]

NothingHandled ==
  [user |-> "", update |-> NoUpdate, state |-> END, handler |-> "none",
   env |-> NoFault, reply |-> NoReply, request |-> NoRequest,
   completion |-> NoCompletion, downloaded |-> FALSE, raised |-> FALSE]

SessionInit ==
  /\ conv = [u \in Users |-> END]
  /\ user_data = [u \in Users |-> EmptyUserData]
  /\ temp = [u \in Users |-> FALSE]
  /\ archive = <<>>
  /\ last = NothingHandled

CleanIdle ==
  /\ cd_data = <<>>
  /\ cd_name = <<>>
  /\ cd_max = 0
  /\ cd_pc = "idle"
  /\ cd_res = NoResult

\* mutant: one user_data dict for every user (bot_data in place of user_data)
Apply_shared_user_data(u, upd, handler, env, out) ==
  /\ conv' = [conv EXCEPT ![u] = out.state]
  /\ user_data' = [x \in Users |-> out.user_data]
  /\ archive' = archive \o out.files
  /\ last' = Handled(u, upd, handler, env, out)

\* the handler's outcome applied to the state
Apply(u, upd, handler, env, out) ==
  /\ conv' = [conv EXCEPT ![u] = out.state]
  /\ user_data' = [user_data EXCEPT ![u] = out.user_data]
  /\ archive' = archive \o out.files
  /\ last' = Handled(u, upd, handler, env, out)

Start(u, upd) ==
  /\ handler_for(conv[u], upd) = "start"
  /\ Apply(u, upd, "start", NoFault, start(user_data[u]))
  /\ UNCHANGED <<temp, clean_vars>>

HandleJson(u, upd, env) ==
  /\ handler_for(conv[u], upd) = "handle_json"
  /\ LET out == handle_json(user_data[u], temp[u], upd.doc, env)
     IN /\ Apply(u, upd, "handle_json", env, out)
        /\ temp' = [temp EXCEPT ![u] = out.temp]
  /\ UNCHANGED clean_vars

HandleInterlocutorName(u, upd, env) ==
  /\ handler_for(conv[u], upd) = "handle_interlocutor_name"
  /\ Len(archive) < MaxArchive
  /\ Apply(u, upd, "handle_interlocutor_name", env,
           handle_interlocutor_name(user_data[u], u, upd.text, env))
  /\ UNCHANGED <<temp, clean_vars>>

ChatMode(u, upd, completion) ==
  /\ handler_for(conv[u], upd) = "chat_mode"
  /\ Len(user_data[u].history.turns) < 2 * MaxTurns
  /\ Apply(u, upd, "chat_mode", NoFault,
           chat_mode(user_data[u], upd.text, completion))
  /\ UNCHANGED <<temp, clean_vars>>

ExitChat(u, upd) ==
  /\ handler_for(conv[u], upd) = "exit_chat"
  /\ Apply(u, upd, "exit_chat", NoFault, exit_chat(user_data[u]))
  /\ UNCHANGED <<temp, clean_vars>>

Cancel(u, upd) ==
  /\ handler_for(conv[u], upd) = "cancel"
  /\ Apply(u, upd, "cancel", NoFault, cancel(user_data[u]))
  /\ UNCHANGED <<temp, clean_vars>>

\* no handler of the current state matches: the update is dropped
Ignored(u, upd) ==
  /\ handler_for(conv[u], upd) = "none"
  /\ last' = [NothingHandled EXCEPT !.user = u, !.update = upd,
                                     !.state = conv[u]]
  /\ UNCHANGED <<conv, user_data, temp, archive, clean_vars>>

Init == SessionInit /\ CleanIdle

\* one update of a user of U, drawn from updates, is handled
Step(U, updates) ==
  \E u \in U, upd \in updates :
    \/ Start(u, upd)
    \/ \E env \in JsonEnvs : HandleJson(u, upd, env)
    \/ \E env \in NameEnvs : HandleInterlocutorName(u, upd, env)
    \/ \E completion \in Completions : ChatMode(u, upd, completion)
    \/ ExitChat(u, upd)
    \/ Cancel(u, upd)
    \/ Ignored(u, upd)

\* one user's session, every update of the library
Next == Step({"u1"}, Updates)

Spec == Init /\ [][Next]_vars

\* two users' sessions interleaved update by update: each user has an export
\* of their own to upload, both type the same name and the same messages;
\* no transport or disk fault, the completion call answers or raises
ExportOf(u) == IF u = "u1" THEN ExportA ELSE ExportB

TwoUserUpdates(u) ==
  {Command(c) : c \in Commands}
    \cup {Document(Doc(TRUE, "valid", ExportOf(u))), Text(Alice)}

TwoUserCompletions ==
  {Completion("ok", <<" ", "o", "k", "\n">>), Completion("raises", <<>>)}

NextUsers ==
  \E u \in Users : \E upd \in TwoUserUpdates(u) :
    \/ Start(u, upd)
    \/ HandleJson(u, upd, NoFault)
    \/ HandleInterlocutorName(u, upd, NoFault)
    \/ \E completion \in TwoUserCompletions : ChatMode(u, upd, completion)
    \/ ExitChat(u, upd)
    \/ Cancel(u, upd)
    \/ Ignored(u, upd)

SpecUsers == Init /\ [][NextUsers]_vars

\* ------------------------------------------------------------------------
\* The extractor on its own: every input within the bounds, one call
\* ------------------------------------------------------------------------
InitClean ==
  /\ cd_data \in SeqsUpTo(RawEntries, MaxLen)
  /\ cd_name \in Names
  /\ cd_max \in 0..MaxCount
  /\ cd_pc = "call"
  /\ cd_res = NoResult
  /\ SessionInit

\* clean_data(data, interlocutor_name, max_messages)
CallCleanData ==
  /\ cd_pc = "call"
  /\ cd_res' = clean_data(cd_data, cd_name, cd_max)
  /\ cd_pc' = "return"
  /\ UNCHANGED <<cd_data, cd_name, cd_max>>
  /\ UNCHANGED session_vars

\* clean_data(data, interlocutor_name): max_messages takes its default
CallCleanDataDefault ==
  /\ cd_pc = "call"
  /\ cd_max' = DEFAULT_MESSAGES_COUNT
  /\ cd_res' = clean_data(cd_data, cd_name, DEFAULT_MESSAGES_COUNT)
  /\ cd_pc' = "return"
  /\ UNCHANGED <<cd_data, cd_name>>
  /\ UNCHANGED session_vars

NextClean == CallCleanData \/ CallCleanDataDefault

SpecClean == InitClean /\ [][NextClean]_vars

\* ------------------------------------------------------------------------
\* The extractor's contract, in the specification's words
\* ------------------------------------------------------------------------
RECURSIVE ConcatAll(_)
ConcatAll(ss) == IF ss = <<>> THEN <<>> ELSE Head(ss) \o ConcatAll(Tail(ss))

HasTextField(e) == e.tag = "text"

\* the text sub-fields of the fragments that have one, in sequence order
FragmentTexts(l) ==
  LET has == SelectSeq(l, HasTextField)
  IN [k \in 1..Len(has) |-> has[k].s]

\* a plain string verbatim, a fragment sequence concatenated, else empty
FlattenedText(t) ==
  CASE t.tag = "str" -> t.s
    [] t.tag = "list" -> ConcatAll(FragmentTexts(t.l))
    [] OTHER -> <<>>

FromTarget(m, name) == m.isdict /\ m.from = JStr(name)

\* a qualifying message: sender equals the name, text non-empty once trimmed
Qualifies(m, name) == FromTarget(m, name) /\ strip(FlattenedText(m.text)) # <<>>

QualifyingTexts(data, name) ==
  LET Q(m) == Qualifies(m, name)
      q == SelectSeq(data, Q)
  IN [k \in 1..Len(q) |-> FlattenedText(q[k].text)]

LastN(s, n) == SubSeq(s, Len(s) - n + 1, Len(s))

TextsOf(out) == [k \in 1..Len(out) |-> out[k].text]

Returned == cd_pc = "return" /\ cd_res.ok

Increasing(idx) == \A j, k \in DOMAIN idx : j < k => idx[j] < idx[k]

\* C1: the result of clean_data has at most max_messages elements and every
\* element's "from" is exactly the requested name; called without
\* max_messages, the cap is DEFAULT_MESSAGES_COUNT.
C1_CapAndSender ==
  Returned =>
    /\ Len(cd_res.out) <= cd_max
    /\ \A k \in 1..Len(cd_res.out) : cd_res.out[k].from = cd_name

\* a full result, cut by the cap, from data that also holds a message of a
\* sender whose name differs from the requested one in case only
C1_Witness ==
  /\ Returned
  /\ cd_name = Alice
  /\ cd_max \in 1..MaxCount
  /\ Len(cd_res.out) = cd_max
  /\ Len(QualifyingTexts(cd_data, cd_name)) > cd_max
  /\ \E i \in 1..Len(cd_data) : cd_data[i].from = JStr(alice)

\* C2: when more than max_messages messages qualify, the result is exactly
\* the last max_messages qualifying messages of the input.
C2_MostRecent ==
  (Returned /\ Len(QualifyingTexts(cd_data, cd_name)) > cd_max) =>
    TextsOf(cd_res.out) = LastN(QualifyingTexts(cd_data, cd_name), cd_max)

\* three different qualifying messages, a cap of two
C2_Witness ==
  /\ Returned
  /\ cd_max = 2
  /\ Len(QualifyingTexts(cd_data, cd_name)) = 3
  /\ Cardinality({cd_data[i] : i \in 1..Len(cd_data)}) = 3
  /\ Len(cd_res.out) = 2

\* C3: the result is in the input's order, oldest first: its elements come
\* from qualifying entries at strictly increasing positions of the input.
C3_ChronologicalOrder ==
  Returned =>
    \E idx \in [1..Len(cd_res.out) -> 1..Len(cd_data)] :
      /\ Increasing(idx)
      /\ \A k \in 1..Len(cd_res.out) :
           /\ Qualifies(cd_data[idx[k]], cd_name)
           /\ cd_res.out[k].text = FlattenedText(cd_data[idx[k]].text)

\* two different messages kept, a message of another sender between them
C3_Witness ==
  /\ Returned
  /\ Len(cd_data) = 3
  /\ Len(cd_res.out) = 2
  /\ cd_res.out[1] # cd_res.out[2]
  /\ ~FromTarget(cd_data[2], cd_name)

\* C4: every text of the result is non-empty once trimmed; a message of the
\* target sender whose text is empty or only whitespace is not in the result.
C4_NoBlankText ==
  Returned =>
    /\ \A k \in 1..Len(cd_res.out) : strip(cd_res.out[k].text) # <<>>
    /\ Len(cd_res.out) <= Len(QualifyingTexts(cd_data, cd_name))

\* a whitespace-only message of the target sender, scanned and dropped, and
\* another of its messages kept
C4_Witness ==
  /\ Returned
  /\ Len(cd_res.out) = 1
  /\ cd_max > 1
  /\ \E i \in 1..Len(cd_data) :
       /\ FromTarget(cd_data[i], cd_name)
       /\ cd_data[i].text.tag = "str"
       /\ cd_data[i].text.s # <<>>
       /\ strip(cd_data[i].text.s) = <<>>

\* C5 as stated: every stored text is trimmed, with no leading or trailing
\* whitespace.
C5_TextIsTrimmed ==
  Returned =>
    \A k \in 1..Len(cd_res.out) : strip(cd_res.out[k].text) = cd_res.out[k].text

\* C5 as amended: every stored text is the flattened text of a message of
\* the target sender, character for character (leading and trailing
\* whitespace kept), and is non-empty once trimmed.
C5_TextIsVerbatim ==
  Returned =>
    \A k \in 1..Len(cd_res.out) :
      /\ \E i \in 1..Len(cd_data) :
           /\ FromTarget(cd_data[i], cd_name)
           /\ cd_res.out[k].text = FlattenedText(cd_data[i].text)
      /\ strip(cd_res.out[k].text) # <<>>

\* a stored text that begins and ends with whitespace
C5_Witness ==
  /\ Returned
  /\ \E k \in 1..Len(cd_res.out) :
       /\ Head(cd_res.out[k].text) \in Whitespace
       /\ cd_res.out[k].text[Len(cd_res.out[k].text)] \in Whitespace

TargetTexts(data, name) ==
  LET T(m) == FromTarget(m, name)
      t == SelectSeq(data, T)
  IN [k \in 1..Len(t) |-> FlattenedText(t[k].text)]

NonBlank(s) == strip(s) # <<>>

ScenarioB ==
  Msg(JStr(Alice),
      TextList(<<FragText(<<"f", "o", "o">>), FragNoText,
                 FragText(<<"b", "a", "r">>)>>), JNull)

\* C6: a plain-string text is taken verbatim, a fragment list gives the
\* concatenation in order of the text sub-fields of the fragments that have
\* one, any other or absent text counts as empty: where the cap cuts
\* nothing, the texts of the result are the non-blank flattened texts of the
\* target sender's messages; [{text:"foo"},{other:1},{text:"bar"}] gives
\* "foobar".
C6_TextExtraction ==
  (Returned /\ Len(cd_data) <= cd_max) =>
    /\ TextsOf(cd_res.out) = SelectSeq(TargetTexts(cd_data, cd_name), NonBlank)
    /\ (cd_data = <<ScenarioB>> /\ cd_name = Alice) =>
         TextsOf(cd_res.out) = << <<"f", "o", "o", "b", "a", "r">> >>

\* a plain string, a fragment list and a text that is neither, in one input
C6_Witness ==
  /\ Returned
  /\ Len(cd_data) = 3
  /\ Len(cd_data) <= cd_max
  /\ \A i \in 1..3 : FromTarget(cd_data[i], cd_name)
  /\ cd_data[1].text.tag = "list"
  /\ cd_data[2].text.tag = "other"
  /\ cd_data[3].text.tag = "str"
  /\ Len(cd_res.out) = 2
  /\ cd_res.out[1].text = <<"f", "o", "o", "b", "a", "r">>

\* ------------------------------------------------------------------------
\* The session machine's contract
\* ------------------------------------------------------------------------
\* the step handles a text sent by u while u is in AwaitingName
NameStep(u) ==
  /\ conv[u] = GET_NAME
  /\ last'.user = u
  /\ IsText(last'.update)
  /\ user_data[u].json_data.present

\* the Extractor's answer to the name of that step
Extracted(u) ==
  clean_data(user_data[u].json_data.messages, last'.update.text,
             DEFAULT_MESSAGES_COUNT)

\* C7: in AwaitingName, a name for which the Extractor returns an empty
\* Transcript is answered "no messages from <name>", the session stays in
\* AwaitingName, and nothing is archived and no stored data changes,
\* however many times it happens.
C7_EmptyResultStaysAwaitingName ==
  [][\A u \in Users :
       (NameStep(u) /\ Extracted(u).ok /\ Extracted(u).out = <<>>) =>
         /\ conv'[u] = GET_NAME
         /\ last'.reply = Reply("no_messages", last'.update.text, 0)
         /\ archive' = archive
         /\ user_data' = user_data
         /\ temp' = temp]_vars

\* a name without messages was refused in a session that still holds the
\* prompt, the history and the archive of an earlier one
C7_Witness ==
  /\ conv["u1"] = GET_NAME
  /\ last.handler = "handle_interlocutor_name"
  /\ last.reply = Reply("no_messages", Carol, 0)
  /\ user_data["u1"].prompt.present
  /\ user_data["u1"].history.turns # <<>>
  /\ archive # <<>>

\* "{from} ({date}): {text}"
RenderedLine(m) ==
  ConcatAll(<<m.from, <<" ", "(">>, date_str(m.date), <<")", ":", " ">>, m.text>>)

\* the lines of the transcript in transcript order, a newline between them,
\* inside the fixed template
StylePromptOf(name, transcript) ==
  LET lines == [k \in 1..Len(transcript) |->
                  IF k = 1 THEN RenderedLine(transcript[k])
                  ELSE <<"\n">> \o RenderedLine(transcript[k])]
  IN ConcatAll(<<PromptHead, name, PromptExamples, ConcatAll(lines), PromptTail>>)

\* C8: in AwaitingName, a name for which the Extractor returns a non-empty
\* Transcript (the archive write not failing) adds exactly one file to the
\* archive, holding that Transcript, sets the prompt to the lines of the
\* Transcript in order inside the template, sets the history to the empty
\* list and moves the session to Chat.
C8_NonEmptyResultStartsChat ==
  [][\A u \in Users :
       (/\ NameStep(u)
        /\ Extracted(u).ok
        /\ Extracted(u).out # <<>>
        /\ last'.env.fault # "write") =>
         /\ archive' = Append(archive, ArchiveFile(u, Extracted(u).out))
         /\ user_data'[u].prompt =
              [present |-> TRUE,
               s |-> StylePromptOf(last'.update.text, Extracted(u).out)]
         /\ user_data'[u].history = [present |-> TRUE, turns |-> <<>>]
         /\ user_data'[u].json_data = user_data[u].json_data
         /\ conv'[u] = CHAT_MODE]_vars

\* a transcript of two messages was archived and the chat started
C8_Witness ==
  /\ conv["u1"] = CHAT_MODE
  /\ last.handler = "handle_interlocutor_name"
  /\ last.reply = Reply("analysis_done", Alice, 2)
  /\ archive # <<>>
  /\ Len(archive[Len(archive)].data) = 2
  /\ user_data["u1"].history = [present |-> TRUE, turns |-> <<>>]

\* the step handles a .json document sent by u while u is in Upload
UploadStep(u) ==
  /\ conv[u] = UPLOAD
  /\ last'.user = u
  /\ IsJsonDocument(last'.update)

\* the file arrived and parses to a dict whose "messages" is a list
ParsesWithMessagesList(h) ==
  h.env.fault = "none" /\ h.update.doc.kind = "valid"

FormatErrors == {"format_error", "json_read_error", "file_processing_error"}

\* C9: in Upload, a document that parses to a structure with a messages
\* list is stored as the raw data and the session moves to AwaitingName;
\* any other document is answered with a format error and the session
\* moves to Ended, the stored data unchanged.
C9_UploadOutcome ==
  [][\A u \in Users :
       UploadStep(u) =>
         IF ParsesWithMessagesList(last')
         THEN /\ conv'[u] = GET_NAME
              /\ user_data'[u].json_data =
                   [present |-> TRUE, messages |-> last'.update.doc.messages]
              /\ last'.reply.kind = "file_received"
         ELSE /\ conv'[u] = END
              /\ user_data'[u] = user_data[u]
              /\ last'.reply.kind \in FormatErrors]_vars

\* a dict whose "messages" is not a list was refused while the raw data of
\* an earlier upload stayed stored
C9_Witness ==
  /\ conv["u1"] = END
  /\ last.handler = "handle_json"
  /\ last.update.doc.kind = "messages_not_list"
  /\ last.reply.kind = "format_error"
  /\ user_data["u1"].json_data.present

\* C10: once handle_json has finished, on whatever path, the temporary file
\* of that user does not exist.
C10_TempFileRemoved ==
  last.handler = "handle_json" => ~temp[last.user]

\* the download failed after writing part of the file
C10_Witness ==
  /\ last.handler = "handle_json"
  /\ last.env = Env("download", TRUE)
  /\ last.downloaded
  /\ ~temp[last.user]

\* the step handles a text sent by u while u is in Chat, with the prompt
\* and the history in place
ChatStep(u) ==
  /\ conv[u] = CHAT_MODE
  /\ last'.user = u
  /\ IsText(last'.update)
  /\ user_data[u].prompt.present
  /\ user_data[u].history.present

\* C11: in Chat, when the completion call fails (it raises, or its response
\* has no usable message), the reply is exactly the fallback string, the
\* handler does not raise and the session stays in Chat.
C11_CompletionFailureFallsBack ==
  [][\A u \in Users :
       (ChatStep(u) /\ last'.completion.kind # "ok") =>
         /\ last'.reply = Reply("response", AI_FALLBACK, 0)
         /\ ~last'.raised
         /\ conv'[u] = CHAT_MODE]_vars

\* a failed turn answered with the fallback, and a later turn of the same
\* chat answered by the model
C11_Witness ==
  /\ conv["u1"] = CHAT_MODE
  /\ last.handler = "chat_mode"
  /\ last.completion.kind = "ok"
  /\ Len(user_data["u1"].history.turns) = 4
  /\ user_data["u1"].history.turns[2] = Turn("assistant", AI_FALLBACK)
  /\ user_data["u1"].history.turns[4] = Turn("assistant", <<"o", "k">>)

ActiveStates == {UPLOAD, GET_NAME, CHAT_MODE}

\* C12: in every active state /cancel is routed to cancel, and the step that
\* handles it replies with the cancellation notice and ends the session.
C12_CancelEndsEverySession ==
  /\ [](\A s \in ActiveStates : handler_for(s, Command("cancel")) = "cancel")
  /\ [][\A u \in Users :
          (conv[u] \in ActiveStates /\ last'.user = u
             /\ IsCommand(last'.update, "cancel")) =>
            /\ conv'[u] = END
            /\ last'.reply = Reply("cancelled", <<>>, 0)]_vars

\* a chat was cancelled
C12_Witness ==
  /\ conv["u1"] = END
  /\ last.handler = "cancel"
  /\ last.state = CHAT_MODE

\* C13 as stated: the step that re-enters through /start leaves none of the
\* earlier session's raw data, prompt or history in the user's state.
C13_ReentryDiscardsOldState ==
  [][\A u \in Users :
       (conv[u] = END /\ last'.user = u /\ IsCommand(last'.update, "start")) =>
         /\ conv'[u] = UPLOAD
         /\ user_data'[u] = EmptyUserData]_vars

\* the prompt the session of u holds was built by a name step of u: it is
\* the template around a transcript archived under u's own user id
BuiltBy(u, prompt) ==
  \E k \in 1..Len(archive) : \E name \in TextInputs :
    /\ archive[k].owner = u
    /\ prompt = StylePromptOf(name, archive[k].data)

\* C14: under any interleaving of two users' updates, an update handled for
\* one user changes neither the state nor the raw data, prompt, history or
\* temporary file of the other; the completion request of a chat turn
\* carries the prompt stored in the sender's own session, and a stored
\* prompt is always one built from a transcript of its own session.
C14_SessionsIndependent ==
  /\ [][\A u \in Users :
          last'.user # u =>
            /\ conv'[u] = conv[u]
            /\ user_data'[u] = user_data[u]
            /\ temp'[u] = temp[u]]_vars
  /\ [][\A u \in Users :
          ChatStep(u) =>
            /\ last'.request.sent
            /\ last'.request.messages[1] = Turn("system", user_data[u].prompt.s)
            /\ BuiltBy(u, user_data[u].prompt.s)]_vars
  /\ [](\A u \in Users :
          user_data[u].prompt.present => BuiltBy(u, user_data[u].prompt.s))

\* both users are chatting, each under a prompt of their own, and the turn
\* just handled was the second user's while the first already has turns
C14_Witness ==
  /\ conv["u1"] = CHAT_MODE
  /\ conv["u2"] = CHAT_MODE
  /\ user_data["u1"].prompt.s # user_data["u2"].prompt.s
  /\ user_data["u1"].history.turns # <<>>
  /\ last.user = "u2"
  /\ last.handler = "chat_mode"
  /\ last.request.messages[1].content = user_data["u2"].prompt.s

\* C15: when the archive write of a name step fails, the user is told of a
\* processing error and the session goes to Ended, not to Chat; the step
\* stores no prompt and no history (what user_data held before is what it
\* holds after).
C15_ArchiveWriteFailureEndsSession ==
  [][\A u \in Users :
       (/\ NameStep(u)
        /\ Extracted(u).ok
        /\ Extracted(u).out # <<>>
        /\ last'.env.fault = "write") =>
         /\ conv'[u] = END
         /\ last'.reply = Reply("processing_error", <<>>, 0)
         /\ user_data'[u].prompt = user_data[u].prompt
         /\ user_data'[u].history = user_data[u].history
         /\ user_data'[u] = user_data[u]]_vars

\* the first name step of a session met a failing write: the session is
\* over with a processing error, and neither prompt nor history exists
C15_Witness ==
  /\ conv["u1"] = END
  /\ last.handler = "handle_interlocutor_name"
  /\ last.env.fault = "write"
  /\ last.state = GET_NAME
  /\ last.reply = Reply("processing_error", <<>>, 0)
  /\ user_data["u1"].json_data.present
  /\ ~user_data["u1"].prompt.present
  /\ ~user_data["u1"].history.present
  /\ LET cleaned == clean_data(user_data["u1"].json_data.messages,
                               last.update.text, DEFAULT_MESSAGES_COUNT)
     IN cleaned.ok /\ cleaned.out # <<>>

\* C16 as stated: whatever malformed entries the raw sequence holds (entries
\* that are not records, an absent or null sender, a text or a fragment
\* text of another shape), the call of clean_data returns a transcript and
\* does not fail.
C16_MalformedEntriesNeverFatal ==
  cd_pc = "return" => cd_res.ok

\* the events the spec lists as not accepted in a state
NotAccepted(state, upd) ==
  \/ state \in {UPLOAD, GET_NAME} /\ IsCommand(upd, "exit")
  \/ state = UPLOAD /\ IsText(upd)
  \/ state \in {GET_NAME, CHAT_MODE} /\ upd.type = "document"
  \/ state \in ActiveStates /\ IsCommand(upd, "start")

\* C17: the exit command in Upload or AwaitingName, text in Upload, a
\* document in AwaitingName or Chat and the entry command in an active
\* session are dropped: no handler runs, nothing is replied, and the state,
\* user_data, the temporary file and the archive stay as they were. The
\* exit handler runs only in Chat, where it ends the session.
C17_UnacceptedEventsChangeNothing ==
  /\ [][\A u \in Users :
          (last'.user = u /\ NotAccepted(conv[u], last'.update)) =>
            /\ last'.handler = "none"
            /\ last'.reply = NoReply
            /\ conv' = conv
            /\ user_data' = user_data
            /\ temp' = temp
            /\ archive' = archive]_vars
  /\ [][\A u \in Users :
          (last'.user = u /\ IsCommand(last'.update, "exit")) =>
            IF conv[u] = CHAT_MODE
              THEN /\ last'.handler = "exit_chat"
                   /\ last'.reply = Reply("exit_notice", <<>>, 0)
                   /\ conv'[u] = END
              ELSE /\ last'.handler = "none"
                   /\ conv'[u] = conv[u]]_vars

\* /start was sent in the middle of a chat and dropped: the session is
\* still in Chat with its turns
C17_Witness ==
  /\ conv["u1"] = CHAT_MODE
  /\ last.state = CHAT_MODE
  /\ last.handler = "none"
  /\ IsCommand(last.update, "start")
  /\ last.reply = NoReply
  /\ user_data["u1"].history.turns # <<>>

IsPrefix(s, t) == Len(s) <= Len(t) /\ SubSeq(t, 1, Len(s)) = s

Alternating(turns) ==
  /\ Len(turns) % 2 = 0
  /\ \A k \in 1..Len(turns) :
       turns[k].role = (IF k % 2 = 1 THEN "user" ELSE "assistant")

\* C18: a stored history always has even length and alternates user,
\* assistant, starting with a user turn; a text handled in Chat appends to
\* it exactly the user's text as a user turn and then the emitted response
\* as an assistant turn (the fallback string when the completion failed);
\* while the session stays in Chat the earlier turns are never changed or
\* removed.
C18_HistoryAppendOnlyAlternating ==
  /\ [](\A u \in Users :
          user_data[u].history.present => Alternating(user_data[u].history.turns))
  /\ [][\A u \in Users :
          ChatStep(u) =>
            /\ last'.reply.kind = "response"
            /\ user_data'[u].history.turns =
                 user_data[u].history.turns
                   \o <<Turn("user", last'.update.text),
                        Turn("assistant", last'.reply.text)>>
            /\ (last'.completion.kind # "ok" => last'.reply.text = AI_FALLBACK)]_vars
  /\ [][\A u \in Users :
          (conv[u] = CHAT_MODE /\ conv'[u] = CHAT_MODE) =>
            IsPrefix(user_data[u].history.turns, user_data'[u].history.turns)]_vars

\* two turns were handled in Chat, the first answered by the model and the
\* second by the fallback string
C18_Witness ==
  /\ conv["u1"] = CHAT_MODE
  /\ last.handler = "chat_mode"
  /\ last.completion.kind = "malformed"
  /\ user_data["u1"].history.turns =
       << Turn("user", Carol), Turn("assistant", <<"o", "k">>),
          Turn("user", Alice), Turn("assistant", AI_FALLBACK) >>

\* C19: the completion request of a chat turn has two messages, the stored
\* prompt as the system message and the text of this turn as the user
\* message, and nothing of the earlier history; a step that leaves the
\* session in Chat changes neither the stored prompt nor the stored raw
\* data, so the prompt of every turn is the one the name step built.
C19_RequestIsPromptPlusCurrentTurn ==
  /\ [][\A u \in Users :
          ChatStep(u) =>
            /\ last'.request =
                 [sent |-> TRUE,
                  messages |-> << Turn("system", user_data[u].prompt.s),
                                  Turn("user", last'.update.text) >>]
            /\ user_data'[u].prompt = user_data[u].prompt
            /\ user_data'[u].json_data = user_data[u].json_data]_vars
  /\ [][\A u \in Users :
          (conv[u] = CHAT_MODE /\ conv'[u] = CHAT_MODE) =>
            /\ user_data'[u].prompt = user_data[u].prompt
            /\ user_data'[u].json_data = user_data[u].json_data]_vars
  /\ [](\A u \in Users :
          conv[u] = CHAT_MODE =>
            \E name \in TextInputs :
              LET cleaned == clean_data(user_data[u].json_data.messages, name,
                                        DEFAULT_MESSAGES_COUNT)
              IN /\ cleaned.ok
                 /\ user_data[u].prompt.s = StylePromptOf(name, cleaned.out))

\* the second turn of a chat was sent to the model: the request holds the
\* prompt and that turn, while the history already held the first turn
C19_Witness ==
  /\ conv["u1"] = CHAT_MODE
  /\ last.handler = "chat_mode"
  /\ last.update = Text(Carol)
  /\ Len(user_data["u1"].history.turns) = 4
  /\ user_data["u1"].history.turns[1] = Turn("user", Alice)
  /\ last.request.messages =
       << Turn("system", user_data["u1"].prompt.s), Turn("user", Carol) >>

\* C20: in every reachable state a session in AwaitingName holds the raw
\* data of an upload, and a session in Chat holds a prompt and a history;
\* so no name step ever answers "data not found" and no chat step ever
\* fails on a missing history or prompt.
C20_StateImpliesStoredData ==
  /\ \A u \in Users :
       /\ conv[u] = GET_NAME => user_data[u].json_data.present
       /\ conv[u] = CHAT_MODE =>
            /\ user_data[u].json_data.present
            /\ user_data[u].prompt.present
            /\ user_data[u].history.present
  /\ last.reply.kind # "data_not_found"
  /\ ~last.raised

\* a name step and then a chat step ran on stored data: the session is in
\* Chat after its first answered turn
C20_Witness ==
  /\ conv["u1"] = CHAT_MODE
  /\ last.state = CHAT_MODE
  /\ last.handler = "chat_mode"
  /\ last.reply.kind = "response"
  /\ user_data["u1"].json_data.messages = ExportB
  /\ Len(user_data["u1"].history.turns) = 2

====
